---- MODULE Spec2Model ----
(***************************************************************************)
(* Product Spotlight block (blocks/product-spotlight/product-spotlight.js) *)
(* decorate(block), fetchProductData(sku), the view builders and the       *)
(* add-to-cart click handler, as a state machine over one block element.   *)
(* Every await of the source is a suspension point (a value of pc); the    *)
(* code between two awaits is one action.  The synchronous tail of         *)
(* decorate (append, emit, catch) is split at the two places where control *)
(* can leave the try block, so that the block content between them is a    *)
(* state; no other handler runs between those positions.                   *)
(***************************************************************************)
EXTENDS Integers, Sequences, FiniteSets, TLC

\* ----------------------------------------------------------------- bounds
MaxClicks == 2
MaxRuns == 2

\* ------------------------------------------------- JavaScript optionals
\* undefined / a missing property is None, a present value v is Some(v)
None == <<>>
Some(v) == <<v>>
IsSome(o) == o # <<>>
Val(o) == o[1]

\* the falsy test of `!sku`, `title && ...`: undefined and '' are falsy
Truthy(o) == IsSome(o) /\ Val(o) # ""

\* a destructuring default `name = dflt`: applies to undefined only
Default(o, dflt) == IF IsSome(o) THEN Val(o) ELSE dflt

\* --------------------------------------------------------------- markup
El(tag, cls, text, children) ==
    [tag |-> tag, cls |-> cls, text |-> text, children |-> children]

ConfigErrorMarkup == <<El("p", "spotlight__error", "Product SKU is required", <<>>)>>
LoadingMarkup == <<El("div", "spotlight__loading", "Loading product...", <<>>)>>
NotFoundMarkup == <<El("p", "spotlight__error", "Product not found", <<>>)>>
FetchErrorMarkup == <<El("p", "spotlight__error", "Error loading product", <<>>)>>

\* Number.prototype.toFixed(2) on the whole-number amounts of the model
ToFixed2(n) == ToString(n) \o ".00"

\* ------------------------------------------------- content table (input)
\* one row of the authored table: <div><div>key</div><div>value</div></div>
Row(key, value) == [tag |-> "div", cls |-> "", text |-> "", children |-> <<>>,
                    cells |-> <<key, value>>]

IsRow(n) == "cells" \in DOMAIN n

TableRows(cfg) ==
    (IF IsSome(cfg.sku) THEN <<Row("sku", Val(cfg.sku))>> ELSE <<>>)
    \o (IF IsSome(cfg.title) THEN <<Row("title", Val(cfg.title))>> ELSE <<>>)
    \o (IF IsSome(cfg.theme) THEN <<Row("theme", Val(cfg.theme))>> ELSE <<>>)

\* readBlockConfig(block): the key/value rows among the block's children
Lookup(children, key) ==
    LET hits == {i \in 1..Len(children) :
                    IsRow(children[i]) /\ children[i].cells[1] = key}
    IN IF hits = {} THEN None
       ELSE Some(children[CHOOSE i \in hits : \A j \in hits : j <= i].cells[2])

readBlockConfig(block) ==
    [sku |-> Lookup(block.children, "sku"),
     title |-> Lookup(block.children, "title"),
     theme |-> Lookup(block.children, "theme")]

\* ------------------------------------------------------- view builders
\* createProductImage(product, container): the node appended to container
createProductImage(product) ==
    El("div", "spotlight__image-container", "",
       IF product.images # <<>> /\ Truthy(product.images[1].url)
       THEN <<[tag |-> "img", cls |-> "spotlight__image", text |-> "",
               children |-> <<>>,
               src |-> Val(product.images[1].url),
               alt |-> IF Truthy(product.images[1].label)
                       THEN Val(product.images[1].label) ELSE product.name]>>
       ELSE <<El("div", "spotlight__image-placeholder", "No Image Available", <<>>)>>)

\* lines 136-142: reading final_price / regular_price of a present
\* minimum_price throws a TypeError when either is missing
PriceThrows(product) ==
    /\ IsSome(product.minimum_price)
    /\ \/ ~IsSome(Val(product.minimum_price).final_price)
       \/ ~IsSome(Val(product.minimum_price).regular_price)

PriceNodes(product) ==
    IF ~IsSome(product.minimum_price)
    THEN <<El("span", "spotlight__price", "", <<>>)>>
    ELSE LET priceData == Val(product.minimum_price)
             currency == Val(priceData.final_price).currency
             finalPrice == Val(priceData.final_price).value
             regularPrice == Val(priceData.regular_price).value
         IN (IF finalPrice < regularPrice
             THEN <<El("span", "spotlight__price-original",
                       currency \o " " \o ToFixed2(regularPrice), <<>>)>>
             ELSE <<>>)
            \o <<El("span", "spotlight__price",
                    currency \o " " \o ToFixed2(finalPrice), <<>>)>>

\* labels.Global?.<key> || fallback
Label(labels, key, fallback) ==
    IF IsSome(labels.Global) /\ Truthy(Val(labels.Global)[key])
    THEN Val(Val(labels.Global)[key]) ELSE fallback

\* `${x}` of a possibly undefined string
Interp(o) == IF IsSome(o) THEN Val(o) ELSE "undefined"

\* createProductInfo throws when the price data is malformed or when a
\* drop-in render call (UI.render, Icon, wishlistRender.render) throws
InfoThrows(product, dropins) == PriceThrows(product) \/ dropins = "throws"

\* createProductInfo(product, labels, container): the node appended
createProductInfo(product, labels) ==
    El("div", "spotlight__info", "",
       <<El("h2", "spotlight__name", product.name, <<>>),
         El("div", "spotlight__price-container", "", PriceNodes(product))>>
       \o (IF Truthy(product.short_description)
           THEN <<El("div", "spotlight__description",
                     Val(product.short_description), <<>>)>>
           ELSE <<>>)
       \o <<El("div", "spotlight__actions", "",
               <<El("div", "spotlight__add-to-cart", "",
                    <<[tag |-> "Button", cls |-> "primary", children |-> <<>>,
                       text |-> Label(labels, "AddProductToCart", "Add to Cart"),
                       onClick |-> [sku |-> product.sku, quantity |-> 1]]>>),
                 El("div", "spotlight__view-product", "",
                    <<[tag |-> "Button", cls |-> "secondary", children |-> <<>>,
                       text |-> Label(labels, "ViewProduct", "View Details"),
                       href |-> "/products/" \o Interp(product.url_key)
                                \o "/" \o product.sku]>>),
                 El("div", "spotlight__wishlist", "",
                    <<[tag |-> "WishlistToggle", cls |-> "", text |-> "",
                       children |-> <<>>, sku |-> product.sku,
                       name |-> product.name,
                       price |-> IF IsSome(product.minimum_price)
                                 THEN Val(product.minimum_price).final_price
                                 ELSE None]>>)>>)>>)

\* decorate lines 266-288: the container with optional title and content
BuildContainer(title, product, labels) ==
    El("div", "spotlight__container", "",
       (IF title # "" /\ title # "Featured Product"
        THEN <<El("h2", "spotlight__title", title, <<>>)>>
        ELSE <<>>)
       \o <<El("div", "spotlight__content", "",
               <<createProductImage(product), createProductInfo(product, labels)>>)>>)

\* ------------------------------------------------------- block element
SetInnerHTML(b, markup) == [b EXCEPT !.children = markup]

AppendChild(b, node) == [b EXCEPT !.children = Append(@, node)]

\* variant for C7: className += token, which repeats a token already there
ClassListPush(b, token) == [b EXCEPT !.classList = Append(@, token)]

\* classList.add(token): a DOMTokenList holds each token once
ClassListAdd(b, token) ==
    IF \E i \in 1..Len(b.classList) : b.classList[i] = token
    THEN b
    ELSE [b EXCEPT !.classList = Append(@, token)]

HasClass(children, cls, text) ==
    \E i \in 1..Len(children) : children[i].cls = cls /\ children[i].text = text

ShowsLoading(b) == HasClass(b.children, "spotlight__loading", "Loading product...")
ShowsRendered(b) == HasClass(b.children, "spotlight__container", "")
ShowsConfigError(b) == HasClass(b.children, "spotlight__error", "Product SKU is required")
ShowsNotFound(b) == HasClass(b.children, "spotlight__error", "Product not found")
ShowsFetchError(b) == HasClass(b.children, "spotlight__error", "Error loading product")

\* the add-to-cart Button mounted in the block, if any
Last(s) == s[Len(s)]

AddToCartButton(b) ==
    IF ~ShowsRendered(b) THEN None
    ELSE LET content == Last(Last(b.children).children)
             info == Last(content.children)
             actions == Last(info.children)
         IN Some(actions.children[1].children[1])

\* ------------------------------------------------------ product fetcher
\* data.data?.products?.[0] || null, on the parsed body; a body that is
\* JSON null makes `data.data` throw, which the catch turns into null
ExtractProduct(data) ==
    IF data.type = "null" THEN None
    ELSE IF ~IsSome(data.data) THEN None
    ELSE IF ~IsSome(Val(data.data).products) THEN None
    ELSE IF Val(Val(data.data).products) = <<>> THEN None
    ELSE Some(Val(Val(data.data).products)[1])

\* variant for C2: the payload reads regular_price instead of final_price
PriceValueRegular(product) ==
    IF IsSome(product.minimum_price) /\ IsSome(Val(product.minimum_price).regular_price)
    THEN Some(Val(Val(product.minimum_price).regular_price).value)
    ELSE None

\* product.price_range?.minimum_price?.final_price?.value
PriceValue(product) ==
    IF IsSome(product.minimum_price) /\ IsSome(Val(product.minimum_price).final_price)
    THEN Some(Val(Val(product.minimum_price).final_price).value)
    ELSE None

\* ------------------------------------------- environment (the inputs)
SkuCells == {None, Some(""), Some("24-MB01")}
TitleCells == {None, Some(""), Some("Staff Pick")}
ThemeCells == {None, Some("dark")}
Configs == [sku : SkuCells, title : TitleCells, theme : ThemeCells]

\* fetchPlaceholders(): rejects, or resolves to a label mapping
Placeholders ==
    {[status |-> "rejected", value |-> [Global |-> None]],
     [status |-> "fulfilled", value |-> [Global |-> None]],
     [status |-> "fulfilled",
      value |-> [Global |-> Some([AddProductToCart |-> Some("In den Warenkorb"),
                                  ViewProduct |-> None])]]}

MinimumPrices ==
    {None,
     Some([final_price |-> None, regular_price |-> Some([value |-> 100])]),
     Some([final_price |-> Some([currency |-> "USD", value |-> 80]),
           regular_price |-> Some([value |-> 100])]),
     Some([final_price |-> Some([currency |-> "USD", value |-> 100]),
           regular_price |-> Some([value |-> 100])])}

\* the optional presentation fields come bare or complete
Details ==
    {[images |-> <<>>, short_description |-> None, url_key |-> None],
     [images |-> <<[url |-> Some("/media/mb01.jpg"), label |-> None]>>,
      short_description |-> Some("<p>Duffle</p>"),
      url_key |-> Some("joust-duffle-bag")]}

Products ==
    {[sku |-> "24-MB01", name |-> "Joust Duffle Bag", images |-> d.images,
      minimum_price |-> mp, short_description |-> d.short_description,
      url_key |-> d.url_key]
       : d \in Details, mp \in MinimumPrices}

\* parsed response bodies: null, {errors}, {data: {}}, {data: {products: [...]}}
JsonValues ==
    {[type |-> "null", data |-> None],
     [type |-> "object", data |-> None],
     [type |-> "object", data |-> Some([products |-> None])],
     [type |-> "object", data |-> Some([products |-> Some(<<>>)])]}
    \cup {[type |-> "object", data |-> Some([products |-> Some(<<p>>)])] : p \in Products}

\* fetch(endpoint, ...): rejects, or resolves to a response whose json()
\* rejects (body None) or resolves to a parsed value
Networks ==
    {[status |-> "rejected", ok |-> FALSE, body |-> None]}
    \cup [status : {"fulfilled"}, ok : BOOLEAN,
          body : {None} \cup {Some(j) : j \in JsonValues}]

AllEnvs == [authored : Configs, placeholders : Placeholders,
            siteConfig : {"ok", "throws"}, network : Networks,
            dropins : {"ok", "throws"}, bus : {"ok", "throws"}]

\* the product a response carries, had it been fetched and parsed
Delivered(network) ==
    IF network.status = "fulfilled" /\ IsSome(network.body)
    THEN ExtractProduct(Val(network.body)) ELSE None

\* the outcome of a call that is never made is not an input: it is fixed
\* (to "ok" / a rejected request) so that equal behaviours are not repeated
Envs ==
    {e \in AllEnvs :
        LET labelsOk == e.placeholders.status = "fulfilled"
            fetches == labelsOk /\ Truthy(e.authored.sku) /\ e.siteConfig = "ok"
            builds == fetches /\ IsSome(Delivered(e.network))
            emits == builds /\ ~InfoThrows(Val(Delivered(e.network)), e.dropins)
        IN /\ (~(labelsOk /\ Truthy(e.authored.sku)) => e.siteConfig = "ok")
           /\ (~fetches => e.network.status = "rejected")
           /\ (~builds => e.dropins = "ok")
           /\ (~emits => e.bus = "ok")}

\* ---------------------------------------------------------------- state
VARIABLES
    env,          \* the content table and the outcomes of the external calls
    block,        \* the block element: children and classList
    attached,     \* whether the block element is still in the page
    pc,           \* position of the decoration task
    run,          \* number of decorate() calls started on this element
    labels,       \* decorate's local `labels`
    config,       \* decorate's local `config`
    fetched,      \* the promise returned by fetchProductData(sku)
    log,          \* what the current run has done so far, in order
    results,      \* how each finished run ended
    requests,     \* network requests issued: <<run, sku>>
    emitted,      \* 'product-spotlight/loaded' events: [run, payload]
    clicks,       \* add-to-cart activations so far
    cartRequests, \* cartApi.addProductsToCart calls: [items, status]
    messages,     \* success messages still in their add-to-cart element
    timers        \* pending setTimeout callbacks, oldest first

vars == <<env, block, attached, pc, run, labels, config, fetched, log, results,
          requests, emitted, clicks, cartRequests, messages, timers>>

cartVars == <<clicks, cartRequests, messages, timers>>

NoConfig == [sku |-> None, title |-> None, theme |-> None]
NoLabels == [Global |-> None]
Pending == [status |-> "pending", value |-> None]

Init ==
    /\ env \in Envs
    /\ block = [children |-> TableRows(env.authored),
                classList |-> <<"product-spotlight", "block">>]
    /\ attached = TRUE
    /\ pc = "idle"
    /\ run = 0
    /\ labels = NoLabels
    /\ config = NoConfig
    /\ fetched = Pending
    /\ log = <<>>
    /\ results = <<>>
    /\ requests = <<>>
    /\ emitted = <<>>
    /\ clicks = 0
    /\ cartRequests = <<>>
    /\ messages = <<>>
    /\ timers = <<>>

\* positions inside a synchronous stretch of code: nothing else runs there
InSync == pc \in {"atEmit", "catch"}

\* how a run ended: the settled state of decorate's promise and the block
Result(outcome, cfg, b) ==
    [run |-> run, outcome |-> outcome, config |-> cfg,
     children |-> b.children, classList |-> b.classList]

\* ------------------------------------------------------------- decorate
\* variant for C9: the loading placeholder is written before the labels
\* are awaited
DecorateEager ==
    /\ pc \in {"idle", "done"}
    /\ run < MaxRuns
    /\ run' = run + 1
    /\ pc' = "awaitLabels"
    /\ labels' = NoLabels
    /\ config' = NoConfig
    /\ fetched' = Pending
    /\ block' = SetInnerHTML(block, LoadingMarkup)
    /\ log' = <<"fetchPlaceholders", "loading">>
    /\ UNCHANGED <<env, attached, results, requests, emitted, cartVars>>

\* decorate(block) is called; runs to `await fetchPlaceholders()`
Decorate ==
    /\ pc \in {"idle", "done"}
    /\ run < MaxRuns
    /\ run' = run + 1
    /\ pc' = "awaitLabels"
    /\ labels' = NoLabels
    /\ config' = NoConfig
    /\ fetched' = Pending
    /\ log' = <<"fetchPlaceholders">>
    /\ UNCHANGED <<env, block, attached, results, requests, emitted, cartVars>>

\* fetchPlaceholders() rejects: line 232 is outside the try block
PlaceholdersRejected ==
    /\ pc = "awaitLabels"
    /\ env.placeholders.status = "rejected"
    /\ pc' = "done"
    /\ log' = Append(log, "throw")
    /\ results' = Append(results, Result("rejected", config, block))
    /\ UNCHANGED <<env, block, attached, run, labels, config, fetched, requests,
                   emitted, cartVars>>

\* lines 232-246: labels resolve, the configuration has no usable sku
ValidateConfigError ==
    /\ pc = "awaitLabels"
    /\ env.placeholders.status = "fulfilled"
    /\ labels' = env.placeholders.value
    /\ config' = readBlockConfig(block)
    /\ ~Truthy(config'.sku)
    /\ block' = SetInnerHTML(block, ConfigErrorMarkup)
    /\ pc' = "done"
    /\ log' = log \o <<"labels", "readBlockConfig", "configerror">>
    /\ results' = Append(results, Result("fulfilled", config', block'))
    /\ UNCHANGED <<env, attached, run, fetched, requests, emitted, cartVars>>

\* lines 232-256 and 34-78: labels resolve, the sku is present; theme class,
\* loading placeholder, then fetchProductData runs to its first await
ValidateLoading ==
    /\ pc = "awaitLabels"
    /\ env.placeholders.status = "fulfilled"
    /\ labels' = env.placeholders.value
    /\ config' = readBlockConfig(block)
    /\ Truthy(config'.sku)
    /\ block' = SetInnerHTML(
                   ClassListAdd(block, "spotlight--" \o Default(config'.theme, "default")),
                   LoadingMarkup)
    /\ IF env.siteConfig = "throws"
       THEN /\ fetched' = [status |-> "rejected", value |-> None]
            /\ pc' = "awaitProduct"
            /\ requests' = requests
            /\ log' = log \o <<"labels", "readBlockConfig", "classList", "loading",
                               "fetchProductData">>
       ELSE /\ fetched' = Pending
            /\ pc' = "awaitResponse"
            /\ requests' = Append(requests, <<run, Val(config'.sku)>>)
            /\ log' = log \o <<"labels", "readBlockConfig", "classList", "loading",
                               "fetchProductData", "request">>
    /\ UNCHANGED <<env, attached, run, results, emitted, cartVars>>

\* lines 68-85: fetch() settles
NetworkSettled ==
    /\ pc = "awaitResponse"
    /\ IF env.network.status = "rejected"
       THEN /\ fetched' = [status |-> "fulfilled", value |-> None]
            /\ pc' = "awaitProduct"
       ELSE /\ fetched' = Pending
            /\ pc' = "awaitJson"
    /\ UNCHANGED <<env, block, attached, run, labels, config, log, results,
                   requests, emitted, cartVars>>

\* lines 80-85: response.json() settles
JsonSettled ==
    /\ pc = "awaitJson"
    /\ fetched' = [status |-> "fulfilled",
                   value |-> IF IsSome(env.network.body)
                             THEN ExtractProduct(Val(env.network.body))
                             ELSE None]
    /\ pc' = "awaitProduct"
    /\ UNCHANGED <<env, block, attached, run, labels, config, log, results,
                   requests, emitted, cartVars>>

\* line 256 throws: fetchProductData rejected; control enters the catch
ProductRejected ==
    /\ pc = "awaitProduct"
    /\ fetched.status = "rejected"
    /\ pc' = "catch"
    /\ log' = Append(log, "product")
    /\ UNCHANGED <<env, block, attached, run, labels, config, fetched, results,
                   requests, emitted, cartVars>>

\* variant for C5: the `if (!product)` guard is missing, so the builders
\* dereference null and control enters the catch
ProductNotFoundUnguarded ==
    /\ pc = "awaitProduct"
    /\ fetched.status = "fulfilled"
    /\ ~IsSome(fetched.value)
    /\ block' = SetInnerHTML(block, <<>>)
    /\ pc' = "catch"
    /\ log' = log \o <<"product", "clear">>
    /\ UNCHANGED <<env, attached, run, labels, config, fetched, results, requests,
                   emitted, cartVars>>

\* lines 258-261
ProductNotFound ==
    /\ pc = "awaitProduct"
    /\ fetched.status = "fulfilled"
    /\ ~IsSome(fetched.value)
    /\ block' = SetInnerHTML(block, NotFoundMarkup)
    /\ pc' = "done"
    /\ log' = log \o <<"product", "notfound">>
    /\ results' = Append(results, Result("fulfilled", config, block'))
    /\ UNCHANGED <<env, attached, run, labels, config, fetched, requests,
                   emitted, cartVars>>

\* lines 263-289: clear, build, append; a throw in the builders leaves the
\* block cleared and enters the catch
Render ==
    /\ pc = "awaitProduct"
    /\ fetched.status = "fulfilled"
    /\ IsSome(fetched.value)
    /\ LET product == Val(fetched.value)
           cleared == SetInnerHTML(block, <<>>)
       IN IF InfoThrows(product, env.dropins)
          THEN /\ block' = cleared
               /\ pc' = "catch"
               /\ log' = log \o <<"product", "clear">>
          ELSE /\ block' = AppendChild(cleared,
                              BuildContainer(Default(config.title, "Featured Product"),
                                             product, labels))
               /\ pc' = "atEmit"
               /\ log' = log \o <<"product", "clear", "rendered">>
    /\ UNCHANGED <<env, attached, run, labels, config, fetched, results, requests,
                   emitted, cartVars>>

\* lines 292-296: events.emit returns
Emit ==
    /\ pc = "atEmit"
    /\ env.bus = "ok"
    /\ LET product == Val(fetched.value)
       IN emitted' = Append(emitted,
              [run |-> run,
               payload |-> [sku |-> product.sku, name |-> product.name,
                            price |-> PriceValue(product)]])
    /\ pc' = "done"
    /\ log' = Append(log, "emit")
    /\ results' = Append(results, Result("fulfilled", config, block))
    /\ UNCHANGED <<env, block, attached, run, labels, config, fetched, requests,
                   cartVars>>

\* lines 292-297: events.emit throws, nothing was published; control enters
\* the catch
EmitThrows ==
    /\ pc = "atEmit"
    /\ env.bus = "throws"
    /\ pc' = "catch"
    /\ UNCHANGED <<env, block, attached, run, labels, config, fetched, log,
                   results, requests, emitted, cartVars>>

\* variant for C6: the catch appends the message instead of replacing the
\* content
CatchAppends ==
    /\ pc = "catch"
    /\ block' = AppendChild(block, FetchErrorMarkup[1])
    /\ pc' = "done"
    /\ log' = Append(log, "fetcherror")
    /\ results' = Append(results, Result("fulfilled", config, block'))
    /\ UNCHANGED <<env, attached, run, labels, config, fetched, requests,
                   emitted, cartVars>>

\* lines 297-300
Catch ==
    /\ pc = "catch"
    /\ block' = SetInnerHTML(block, FetchErrorMarkup)
    /\ pc' = "done"
    /\ log' = Append(log, "fetcherror")
    /\ results' = Append(results, Result("fulfilled", config, block'))
    /\ UNCHANGED <<env, attached, run, labels, config, fetched, requests,
                   emitted, cartVars>>

\* ---------------------------------------------------------- add to cart
\* lines 174-188: the Button's onClick
Click ==
    /\ ~InSync
    /\ attached
    /\ clicks < MaxClicks
    /\ IsSome(AddToCartButton(block))
    /\ LET item == Val(AddToCartButton(block)).onClick
       IN cartRequests' = Append(cartRequests,
                                 [items |-> <<item>>, status |-> "pending"])
    /\ clicks' = clicks + 1
    /\ messages' = Append(messages, clicks + 1)
    /\ timers' = Append(timers, clicks + 1)
    /\ UNCHANGED <<env, block, attached, pc, run, labels, config, fetched, log,
                   results, requests, emitted>>

\* the promise of cartApi.addProductsToCart settles; nobody awaits it
CartSettled ==
    /\ ~InSync
    /\ \E i \in 1..Len(cartRequests), s \in {"fulfilled", "rejected"} :
          /\ cartRequests[i].status = "pending"
          /\ \A j \in 1..(i - 1) : cartRequests[j].status # "pending"
          /\ cartRequests' = [cartRequests EXCEPT ![i].status = s]
    /\ UNCHANGED <<env, block, attached, pc, run, labels, config, fetched, log,
                   results, requests, emitted, clicks, messages, timers>>

\* variant for C10: the callback removes nothing
TimerFiredKeepsMessage ==
    /\ ~InSync
    /\ timers # <<>>
    /\ timers' = Tail(timers)
    /\ UNCHANGED <<env, block, attached, pc, run, labels, config, fetched, log,
                   results, requests, emitted, clicks, cartRequests, messages>>

\* lines 185-187: the oldest timer fires (all delays are 3000 ms)
TimerFired ==
    /\ ~InSync
    /\ timers # <<>>
    /\ messages' = SelectSeq(messages, LAMBDA m : m # Head(timers))
    /\ timers' = Tail(timers)
    /\ UNCHANGED <<env, block, attached, pc, run, labels, config, fetched, log,
                   results, requests, emitted, clicks, cartRequests>>

\* ---------------------------------------------------------- environment
\* the block element is removed from the page while its decoration is in
\* flight; the task is not cancelled
RemoveBlock ==
    /\ pc \in {"awaitLabels", "awaitResponse", "awaitJson", "awaitProduct"}
    /\ attached
    /\ attached' = FALSE
    /\ UNCHANGED <<env, block, pc, run, labels, config, fetched, log, results,
                   requests, emitted, cartVars>>

\* the page puts the authored table back into the element before it is
\* decorated again
RestoreTable ==
    /\ pc = "done"
    /\ run < MaxRuns
    /\ block.children # TableRows(env.authored)
    /\ block' = SetInnerHTML(block, TableRows(env.authored))
    /\ UNCHANGED <<env, attached, pc, run, labels, config, fetched, log, results,
                   requests, emitted, cartVars>>

Next ==
    \/ Decorate
    \/ PlaceholdersRejected
    \/ ValidateConfigError
    \/ ValidateLoading
    \/ NetworkSettled
    \/ JsonSettled
    \/ ProductRejected
    \/ ProductNotFound
    \/ Render
    \/ Emit
    \/ EmitThrows
    \/ Catch
    \/ Click
    \/ CartSettled
    \/ TimerFired
    \/ RemoveBlock
    \/ RestoreTable

Spec == Init /\ [][Next]_vars

\* The click handler reads the product's sku and nothing else of the
\* configuration or of the response: for the behaviour of the feedback
\* messages the environments are taken without title and theme and with
\* OK responses only.
CartEnvs ==
    {e \in Envs :
        /\ e.authored.title = None
        /\ e.authored.theme = None
        /\ e.authored.sku # Some("")
        /\ e.network.status = "fulfilled" => e.network.ok}

FairInit == Init /\ env \in CartEnvs

\* the event loop runs a started synchronous stretch to its end and fires
\* every pending timer
FairSpec ==
    /\ FairInit
    /\ [][Next]_vars
    /\ WF_vars(TimerFired)
    /\ WF_vars(Emit \/ EmitThrows \/ Catch)

\* ================================================================ claims
\* the finished runs, and what each one left in the block
Runs == DOMAIN results
EndsRendered(r) == r.outcome = "fulfilled" /\ ShowsRendered(r)
EndsInError(r) ==
    r.outcome = "fulfilled"
    /\ r.children \in {ConfigErrorMarkup, NotFoundMarkup, FetchErrorMarkup}
EventsOf(n) == SelectSeq(emitted, LAMBDA e : e.run = n)
RequestsOf(n) == SelectSeq(requests, LAMBDA q : q[1] = n)
Range(s) == {s[i] : i \in DOMAIN s}

\* C1: a block whose authored sku is missing or empty ends its decoration
\* in ConfigError (the fixed 'Product SKU is required' message) and issues
\* no product request in that run.
C1_MissingSkuEndsInConfigError ==
    (results # <<>> /\ ~Truthy(env.authored.sku))
    => /\ results[1].outcome = "fulfilled"
       /\ results[1].children = ConfigErrorMarkup
       /\ RequestsOf(1) = <<>>

FetcherFailure ==
    \/ env.siteConfig = "throws"
    \/ env.network.status = "rejected"
    \/ ~env.network.ok
    \/ ~IsSome(env.network.body)
    \/ Val(env.network.body).type = "null"
    \/ ~IsSome(Val(env.network.body).data)

\* C3: fetchProductData never rejects, and whenever something failed in it
\* (configuration lookup, network failure, non-OK response, unparsable or
\* malformed body) the value it completes with is null.
C3_FetcherNeverThrows ==
    pc = "awaitProduct"
    => /\ fetched.status = "fulfilled"
       /\ FetcherFailure => fetched.value = None

\* C4: every decoration run that has ended left the block in exactly one
\* of Rendered, NotFound, ConfigError and FetchError, with decorate's
\* promise fulfilled (no exception escaped) and no loading placeholder.
C4_RunEndsInTerminalState ==
    \A i \in Runs :
        /\ results[i].outcome = "fulfilled"
        /\ ~ShowsLoading(results[i])
        /\ \/ ShowsRendered(results[i])
           \/ results[i].children \in
                 {ConfigErrorMarkup, NotFoundMarkup, FetchErrorMarkup}

\* C5: when the sku is valid and fetchProductData returned null, the run
\* ends in NotFound: the block content is exactly the 'Product not found'
\* message, no product markup is attached and no event was emitted.
C5_NullProductEndsInNotFound ==
    (pc = "done" /\ fetched.status = "fulfilled" /\ fetched.value = None)
    => /\ Truthy(config.sku)
       /\ results[run].children = NotFoundMarkup
       /\ ~ShowsRendered(results[run])
       /\ EventsOf(run) = <<>>

C5_Witness ==
    /\ pc = "done"
    /\ fetched.status = "fulfilled" /\ fetched.value = None
    /\ env.network.status = "fulfilled"
    /\ results[run].children = NotFoundMarkup

\* an exception is raised in the try block of decorate
Raises ==
    \/ env.siteConfig = "throws"
    \/ /\ IsSome(Delivered(env.network))
       /\ \/ InfoThrows(Val(Delivered(env.network)), env.dropins)
          \/ env.bus = "throws"

\* C6: when the sku is valid and fetchProductData throws, or an exception
\* is raised after the fetch (in the view builders or in the emit), the run
\* ends in FetchError: the block content is exactly the 'Error loading
\* product' message, nothing of the product markup stays attached.
C6_ExceptionEndsInFetchError ==
    \A i \in Runs :
        (results[i].outcome = "fulfilled" /\ Truthy(results[i].config.sku) /\ Raises)
        => results[i].children = FetchErrorMarkup

C6_Witness ==
    \E i \in Runs :
        /\ results[i].children = FetchErrorMarkup
        /\ IsSome(Delivered(env.network))
        /\ PriceThrows(Val(Delivered(env.network)))

TerminalWrites == {"rendered", "notfound", "configerror", "fetcherror"}
ContentWrites == TerminalWrites \cup {"loading", "clear"}

\* C8: within one run, once the block content has been set to one of the
\* terminal states no later step writes the block content again, and the
\* content never reflects two of Loading and the terminal states at once.
C8_TerminalStatesAbsorbing ==
    /\ \A i \in DOMAIN log : \A j \in DOMAIN log :
          (i < j /\ log[i] \in TerminalWrites) => log[j] \notin ContentWrites
    /\ Cardinality({k \in {"loading", "rendered", "configerror", "notfound",
                           "fetcherror"} :
                       \/ k = "loading" /\ ShowsLoading(block)
                       \/ k = "rendered" /\ ShowsRendered(block)
                       \/ k = "configerror" /\ ShowsConfigError(block)
                       \/ k = "notfound" /\ ShowsNotFound(block)
                       \/ k = "fetcherror" /\ ShowsFetchError(block)}) <= 1

\* every b of the log has an a before it
Before(a, b) ==
    \A j \in DOMAIN log : log[j] = b => \E i \in 1..(j - 1) : log[i] = a

\* the block as decorate found it when the current run started
StartOfRun ==
    IF run = 1
    THEN {[children |-> TableRows(env.authored),
           classList |-> <<"product-spotlight", "block">>]}
    ELSE {[children |-> c, classList |-> results[run - 1].classList] :
             c \in {results[run - 1].children, TableRows(env.authored)}}

\* C9: in a run the label fetch, the configuration validation and the
\* product fetch happen in that order; the block is untouched until the
\* label fetch has resolved, and it shows the loading placeholder, and no
\* terminal content, until the product fetch has settled.
C9_OrderedAndNeverSpeculative ==
    /\ log # <<>> => log[1] = "fetchPlaceholders"
    /\ \A e \in ContentWrites \cup {"readBlockConfig", "classList"} :
          Before("labels", e)
    /\ Before("readBlockConfig", "fetchProductData")
    /\ Before("readBlockConfig", "configerror")
    /\ \A e \in {"clear", "rendered", "notfound", "fetcherror"} :
          Before("fetchProductData", e) /\ Before("product", e)
    /\ pc = "awaitLabels" =>
          /\ block \in StartOfRun
          /\ config = NoConfig
          /\ RequestsOf(run) = <<>>
    /\ pc \in {"awaitResponse", "awaitJson", "awaitProduct"} =>
          /\ block.children = LoadingMarkup
          /\ Truthy(config.sku)
          /\ Len(RequestsOf(run)) <= 1
    /\ pc \in {"awaitResponse", "awaitJson"} => Len(RequestsOf(run)) = 1

C9_Witness ==
    /\ pc = "awaitProduct"
    /\ fetched.status = "fulfilled"
    /\ IsSome(fetched.value)
    /\ block.children = LoadingMarkup
    /\ Len(RequestsOf(run)) = 1

\* what a step that counts a click does, and what a settling cart call does
ClickEffect ==
    clicks' = clicks + 1 =>
        /\ ShowsRendered(block)
        /\ cartRequests' =
              Append(cartRequests,
                     [items |-> <<[sku |-> Val(Delivered(env.network)).sku,
                                   quantity |-> 1]>>,
                      status |-> "pending"])
        /\ messages' = Append(messages, clicks')
        /\ clicks' \in Range(timers')

SettleEffect ==
    (clicks' = clicks /\ cartRequests' # cartRequests)
    => messages' = messages /\ timers' = timers

\* C10: every activation of the add-to-cart button asks the cart service
\* for one unit of the product's sku and appends one success message at
\* once, while that call is still pending; the settling of a cart call,
\* either way, touches no message; every message is eventually removed by
\* its timer, and with no timer left no message is left.
C10_FeedbackAlwaysShownAndRemoved ==
    /\ [][ClickEffect /\ SettleEffect]_vars
    /\ [](Range(messages) = Range(timers))
    /\ [](timers = <<>> => messages = <<>>)
    /\ \A m \in 1..MaxClicks :
          (m \in Range(messages)) ~> (m \notin Range(messages))

C10_Witness ==
    /\ clicks = MaxClicks
    /\ messages = <<>>
    /\ timers = <<>>
    /\ \E i \in DOMAIN cartRequests : cartRequests[i].status = "rejected"
    /\ \E i \in DOMAIN cartRequests : cartRequests[i].status = "fulfilled"

====
